---------------------------- MODULE Spec2Model ----------------------------
(***************************************************************************)
(* Shopping System API (src/main.py, src/schemas.py): the cart, checkout   *)
(* and seeding handlers over a document store.                             *)
(*                                                                         *)
(* Spec      every request runs to completion before the next starts       *)
(*           (one action per handler).                                     *)
(* SpecRace  addToCart requests are split at their two store calls         *)
(*           (find_one, then update_one or insert), which interleave.      *)
(*                                                                         *)
(* Money is counted in cents; the argument of round(x, 2) is counted in    *)
(* hundredths of a cent.  All prices of the model are whole cents, so no   *)
(* argument of round() lies on a binary-float tie.                         *)
(* Identifier strings are sequences of one-character strings.  An ObjectId *)
(* is modelled by the number its 24 hex digits denote.                     *)
(***************************************************************************)
EXTENDS Integers, Sequences, FiniteSets, TLC

VARIABLES
    dbUp,       \* database.db is not None
    category,   \* db["category"]
    product,    \* db["product"]
    cartitem,   \* db["cartitem"]
    order,      \* db["order"] (schemas.Order)
    nextOid,    \* the next identifier the store assigns to a cart item
    last,       \* the last completed request and its response
    pc,         \* SpecRace: where each in-flight add_to_cart stands
    item,       \* SpecRace: the CartItem body of each in-flight add_to_cart
    existing,   \* SpecRace: what find_one returned to each in-flight add_to_cart
    requested,  \* SpecRace: per (cart_id, product_id), quantity asked by adds that answered 200
    raced       \* SpecRace: a lookup ran while an identical add stood between lookup and write

vars == <<dbUp, category, product, cartitem, order, nextOid, last,
          pc, item, existing, requested, raced>>

storeVars == <<dbUp, category, product, cartitem, order, nextOid>>
raceVars == <<pc, item, existing, requested, raced>>

---------------------------------------------------------------------------
(* Bounds *)

MaxQty == 2        \* largest quantity of one request
MaxQuantity == 3   \* largest quantity a row may reach in the model
MaxItems == 2      \* cart items the store is asked to insert in one run
NReq == 2          \* concurrent add_to_cart requests (SpecRace)

---------------------------------------------------------------------------
(* bson.objectid.ObjectId and str(ObjectId) *)

OidLen == 24

HexChars == {"0", "1", "2", "3", "4", "5", "6", "7", "8", "9",
             "a", "b", "c", "d", "e", "f", "A", "B", "C", "D", "E", "F"}

LowerHex == <<"0", "1", "2", "3", "4", "5", "6", "7", "8", "9",
              "a", "b", "c", "d", "e", "f">>

HexVal(ch) ==
    CASE ch \in {"a", "A"} -> 10
      [] ch \in {"b", "B"} -> 11
      [] ch \in {"c", "C"} -> 12
      [] ch \in {"d", "D"} -> 13
      [] ch \in {"e", "E"} -> 14
      [] ch \in {"f", "F"} -> 15
      [] OTHER -> CHOOSE n \in 0..9 : LowerHex[n + 1] = ch

\* ObjectId.is_valid for a str: 24 hex digits
ValidHex(s) == Len(s) = OidLen /\ \A i \in 1..Len(s) : s[i] \in HexChars

\* the number the first n hex digits of s denote
RECURSIVE ParseHex(_, _)
ParseHex(s, n) == IF n = 0 THEN 0 ELSE 16 * ParseHex(s, n - 1) + HexVal(s[n])

\* the k-th hex digit of n, counted from the right and from 0
RECURSIVE HexDigit(_, _)
HexDigit(n, k) == IF k = 0 THEN n % 16 ELSE HexDigit(n \div 16, k - 1)

\* str(oid): 24 lower-case hex digits
FormatOid(oid) == [i \in 1..OidLen |-> LowerHex[HexDigit(oid, OidLen - i) + 1]]

\* str(oid), tabulated over the identifiers of the model
StrOidTable == [o \in 0..63 |-> FormatOid(o)]
StrOid(oid) == StrOidTable[oid]

---------------------------------------------------------------------------
(* The documents *)

SeedCategories ==
    { [_id |-> 2, slug |-> "featured"],
      [_id |-> 3, slug |-> "accessories"],
      [_id |-> 4, slug |-> "tech"] }

\* price in cents
SeedProducts ==
    { [_id |-> 11, price |-> 18900, category |-> "accessories"],
      [_id |-> 12, price |-> 12900, category |-> "tech"],
      [_id |-> 13, price |-> 2400, category |-> "featured"] }

\* a store that already holds documents when the process starts
CustomCategories == { [_id |-> 1, slug |-> "custom"] }
CustomProducts(price) == { [_id |-> 10, price |-> price, category |-> "custom"] }
SamplePrices == {1999, 10000}

Carts == {"c1", "c2"}

Malformed == <<"x", "y", "z">>
UpperTote == [i \in 1..OidLen |-> IF i = OidLen THEN "B" ELSE "0"]

\* product_id strings a client sends: the custom product's id, the seeded
\* tote's id in upper case, a malformed id.  A well-formed id resolves only
\* once its product is in the store.
ProductIds == {StrOid(10), UpperTote, Malformed}

\* identifiers the store assigns to cart items, in order of insertion
ItemOids == 32..(31 + MaxItems)

\* ids a client sends to remove_from_cart and to get_product
ItemIdInputs == {StrOid(o) : o \in ItemOids} \cup {Malformed}
ProductIdInputs == {StrOid(10), StrOid(0), Malformed}

\* ObjectId(s), tabulated over the strings clients send: the value when s is
\* valid, and -1 where ObjectId(s) raises InvalidId
ObjectIdTable ==
    [s \in ProductIds \cup ItemIdInputs \cup ProductIdInputs |->
        IF ValidHex(s) THEN ParseHex(s, Len(s)) ELSE -1]
IsValidOid(s) == ObjectIdTable[s] # -1
ObjectId(s) == ObjectIdTable[s]

Pairs == Carts \X ProductIds

NoRequest ==
    [op |-> "none", cart |-> "", pid |-> <<>>, qty |-> 0, id |-> <<>>,
     status |-> 0, result |-> "", items |-> {}, subtotal |-> 0, total |-> 0,
     currency |-> "", fresh |-> FALSE, again |-> FALSE, first |-> <<>>]

Response(op, status, result) ==
    [NoRequest EXCEPT !.op = op, !.status = status, !.result = result]


\* The response is recorded with two history fields: again, the request
\* before it had the same operation and arguments (quantity apart); first,
\* for an add whose predecessor was an add of the same (cart_id, product_id)
\* that found no row, that predecessor's quantity and answer.
Record(r) ==
    LET same == last.op = r.op /\ last.cart = r.cart /\ last.pid = r.pid /\ last.id = r.id
    IN  last' = [r EXCEPT !.again = same,
                          !.first = IF same /\ r.op = "add" /\ last.fresh
                                    THEN <<last.qty, last.status, last.result>>
                                    ELSE <<>>]

---------------------------------------------------------------------------
(* Store calls *)

\* db["cartitem"].find({"cart_id": c, "product_id": p}): the rows find_one chooses among
MatchingItems(rows, c, p) == {r \in rows : r.cart_id = c /\ r.product_id = p}

\* db["cartitem"].find({"cart_id": c})
CartRows(rows, c) == {r \in rows : r.cart_id = c}

\* Mutant of IncQuantity: $set where $inc is meant
IncQuantityOverwrite(rows, id, q) ==
    {IF r._id = id THEN [r EXCEPT !.quantity = q] ELSE r : r \in rows}

\* update_one({"_id": id}, {"$inc": {"quantity": q}}): atomic in the store,
\* and a no-op when no row has that _id
IncQuantity(rows, id, q) ==
    {IF r._id = id THEN [r EXCEPT !.quantity = r.quantity + q] ELSE r : r \in rows}

\* create_document("cartitem", item): insert_one with a store-assigned _id
create_document(rows, oid, c, p, q) ==
    rows \cup {[_id |-> oid, cart_id |-> c, product_id |-> p, quantity |-> q]}

\* Mutant of DeleteOne: deletes every row of the cart the row belongs to
DeleteOneByCart(rows, oid) ==
    {r \in rows : \A x \in rows : x._id = oid => r.cart_id # x.cart_id}

\* delete_one({"_id": oid})
DeleteOne(rows, oid) == {r \in rows : r._id # oid}

\* db["product"].find_one({"_id": oid}): the set of what it finds
FindProduct(products, oid) == {d \in products : d._id = oid}

\* to_str_id(doc)
to_str_id(d) == [id |-> StrOid(d._id), price |-> d.price, category |-> d.category]

\* CartItem.quantity: Field(1, ge=1)
ValidCartItem(q) == q >= 1

---------------------------------------------------------------------------
(* checkout arithmetic *)

TaxPercent == 108

\* round(x, 2), x in hundredths of a cent, the result in cents (ties to even)
Round2(x) ==
    LET f == x \div 100
        r == x % 100
    IN  IF r > 50 \/ (r = 50 /\ f % 2 = 1) THEN f + 1 ELSE f

\* the loop of checkout over rows whose product_id is well formed: cents
RECURSIVE Subtotal(_, _)
Subtotal(rows, products) ==
    IF rows = {} THEN 0
    ELSE LET it == CHOOSE r \in rows : TRUE
             p == FindProduct(products, ObjectId(it.product_id))
             line == IF p = {} THEN 0
                     ELSE (CHOOSE d \in p : TRUE).price * it.quantity
         IN  line + Subtotal(rows \ {it}, products)

\* the loop of get_cart over rows whose product_id is well formed
CartView(rows, products) ==
    {[id |-> StrOid(it._id), product |-> to_str_id(d), quantity |-> it.quantity] :
        <<it, d>> \in {x \in rows \X products : x[2]._id = ObjectId(x[1].product_id)}}


---------------------------------------------------------------------------
(* Initial states *)

\* The process has started: without a store (db is None), or with one whose
\* category and product collections are empty or already hold documents.
Init ==
    /\ dbUp \in BOOLEAN
    /\ category \in (IF dbUp THEN {{}, CustomCategories} ELSE {{}})
    /\ product \in (IF dbUp THEN {{}} \cup {CustomProducts(pr) : pr \in SamplePrices}
                              ELSE {{}})
    /\ cartitem = {}
    /\ order = {}
    /\ nextOid = 32
    /\ last = NoRequest
    /\ pc = [r \in 1..NReq |-> "idle"]
    /\ item = [r \in 1..NReq |-> <<>>]
    /\ existing = [r \in 1..NReq |-> {}]
    /\ requested = [pr \in Pairs |-> 0]
    /\ raced = FALSE

---------------------------------------------------------------------------
(* Handlers, each run to completion *)

\* Mutant of seed_data: one emptiness test, of category, decides both inserts
seed_data_one_check ==
    /\ category' = IF dbUp /\ Cardinality(category) = 0
                   THEN category \cup SeedCategories ELSE category
    /\ product' = IF dbUp /\ Cardinality(category) = 0
                  THEN product \cup SeedProducts ELSE product
    /\ Record(Response("seed", 0, ""))
    /\ UNCHANGED <<dbUp, cartitem, order, nextOid, raceVars>>

\* seed_data (startup): returns at once when db is None; each collection is
\* filled only when count_documents({}) == 0
seed_data ==
    /\ category' = IF dbUp /\ Cardinality(category) = 0
                   THEN category \cup SeedCategories ELSE category
    /\ product' = IF dbUp /\ Cardinality(product) = 0
                  THEN product \cup SeedProducts ELSE product
    /\ Record(Response("seed", 0, ""))
    /\ UNCHANGED <<dbUp, cartitem, order, nextOid, raceVars>>

\* GET /api/products/{product_id}.  The try covers db["product"] and
\* ObjectId(product_id): db None and a malformed id both end in 404.
get_product(id) ==
    /\ IF ~dbUp \/ ~IsValidOid(id)
       THEN Record([Response("getProduct", 404, "Invalid product id") EXCEPT !.id = id])
       ELSE LET doc == FindProduct(product, ObjectId(id))
            IN  IF doc = {}
                THEN Record([Response("getProduct", 404, "Product not found")
                                EXCEPT !.id = id])
                ELSE Record([Response("getProduct", 200, "")
                                EXCEPT !.id = id, !.items = {to_str_id(d) : d \in doc}])
    /\ UNCHANGED <<storeVars, raceVars>>

\* Mutant of add_to_cart: inserts without looking for an existing row
add_to_cart_insert_only(c, p, q) ==
    LET req == [NoRequest EXCEPT !.op = "add", !.cart = c, !.pid = p, !.qty = q,
                                 !.fresh = (MatchingItems(cartitem, c, p) = {})]
    IN
    /\ IF ~ValidCartItem(q) \/ ~dbUp
       THEN /\ Record([req EXCEPT !.status = IF ValidCartItem(q) THEN 500 ELSE 422])
            /\ UNCHANGED <<cartitem, nextOid>>
       ELSE /\ nextOid \in ItemOids
            /\ cartitem' = create_document(cartitem, nextOid, c, p, q)
            /\ nextOid' = nextOid + 1
            /\ Record([req EXCEPT !.status = 200, !.result = "added"])
    /\ UNCHANGED <<dbUp, category, product, order, raceVars>>

\* POST /api/cart/add.  The body is validated before the handler runs (422);
\* with db None db["cartitem"] raises and nothing catches it (500).  The
\* guards on MaxQuantity and ItemOids keep the run within the bounds.
add_to_cart(c, p, q) ==
    LET req == [NoRequest EXCEPT !.op = "add", !.cart = c, !.pid = p, !.qty = q,
                                 !.fresh = (MatchingItems(cartitem, c, p) = {})]
    IN
    /\ IF ~ValidCartItem(q)
       THEN /\ Record([req EXCEPT !.status = 422])
            /\ UNCHANGED <<cartitem, nextOid>>
       ELSE IF ~dbUp
       THEN /\ Record([req EXCEPT !.status = 500])
            /\ UNCHANGED <<cartitem, nextOid>>
       ELSE IF MatchingItems(cartitem, c, p) # {}
       THEN \E e \in MatchingItems(cartitem, c, p) :
                /\ e.quantity + q <= MaxQuantity
                /\ cartitem' = IncQuantity(cartitem, e._id, q)
                /\ Record([req EXCEPT !.status = 200, !.result = "updated"])
                /\ UNCHANGED nextOid
       ELSE /\ nextOid \in ItemOids
            /\ cartitem' = create_document(cartitem, nextOid, c, p, q)
            /\ nextOid' = nextOid + 1
            /\ Record([req EXCEPT !.status = 200, !.result = "added"])
    /\ UNCHANGED <<dbUp, category, product, order, raceVars>>

\* GET /api/cart.  ObjectId(it["product_id"]) is outside any try: a row
\* whose product_id is malformed ends the request in an unhandled error (500).
get_cart(c) ==
    LET req == [NoRequest EXCEPT !.op = "getCart", !.cart = c]
        rows == CartRows(cartitem, c)
    IN
    /\ IF ~dbUp \/ \E it \in rows : ~IsValidOid(it.product_id)
       THEN Record([req EXCEPT !.status = 500])
       ELSE Record([req EXCEPT !.status = 200, !.items = CartView(rows, product)])
    /\ UNCHANGED <<storeVars, raceVars>>

\* Mutant of remove_from_cart: ObjectId(payload.id) outside the try
remove_from_cart_no_catch(id) ==
    LET req == [NoRequest EXCEPT !.op = "remove", !.id = id]
    IN
    /\ IF ~dbUp \/ ~IsValidOid(id)
       THEN /\ Record([req EXCEPT !.status = 500])
            /\ UNCHANGED cartitem
       ELSE IF DeleteOne(cartitem, ObjectId(id)) = cartitem
       THEN /\ Record([req EXCEPT !.status = 404, !.result = "Item not found"])
            /\ UNCHANGED cartitem
       ELSE /\ cartitem' = DeleteOne(cartitem, ObjectId(id))
            /\ Record([req EXCEPT !.status = 200, !.result = "removed"])
    /\ UNCHANGED <<dbUp, category, product, order, nextOid, raceVars>>

\* POST /api/cart/remove.  The try covers db["cartitem"], ObjectId(payload.id)
\* and delete_one: db None and a malformed id both end in 400.
remove_from_cart(id) ==
    LET req == [NoRequest EXCEPT !.op = "remove", !.id = id]
    IN
    /\ IF ~dbUp \/ ~IsValidOid(id)
       THEN /\ Record([req EXCEPT !.status = 400, !.result = "Invalid id"])
            /\ UNCHANGED cartitem
       ELSE IF DeleteOne(cartitem, ObjectId(id)) = cartitem
       THEN /\ Record([req EXCEPT !.status = 404, !.result = "Item not found"])
            /\ UNCHANGED cartitem
       ELSE /\ cartitem' = DeleteOne(cartitem, ObjectId(id))
            /\ Record([req EXCEPT !.status = 200, !.result = "removed"])
    /\ UNCHANGED <<dbUp, category, product, order, nextOid, raceVars>>

\* Mutant of checkout: the quoted cart is emptied
checkout_empties_cart(c) ==
    LET req == [NoRequest EXCEPT !.op = "checkout", !.cart = c]
        rows == CartRows(cartitem, c)
    IN
    /\ IF ~dbUp \/ \E it \in rows : ~IsValidOid(it.product_id)
       THEN /\ Record([req EXCEPT !.status = 500])
            /\ UNCHANGED cartitem
       ELSE /\ Record([req EXCEPT !.status = 200,
                                   !.subtotal = Round2(Subtotal(rows, product) * 100),
                                   !.total = Round2(Subtotal(rows, product) * TaxPercent),
                                   !.currency = "USD"])
            /\ cartitem' = cartitem \ rows
    /\ UNCHANGED <<dbUp, category, product, order, nextOid, raceVars>>

\* POST /api/checkout.  As in get_cart, ObjectId(it["product_id"]) is outside
\* any try.  subtotal is in cents; round(subtotal * 1.08, 2) and
\* round(subtotal, 2) are taken of its value in hundredths of a cent.
checkout(c) ==
    LET req == [NoRequest EXCEPT !.op = "checkout", !.cart = c]
        rows == CartRows(cartitem, c)
    IN
    /\ IF ~dbUp \/ \E it \in rows : ~IsValidOid(it.product_id)
       THEN Record([req EXCEPT !.status = 500])
       ELSE LET subtotal == Subtotal(rows, product)
            IN  Record([req EXCEPT !.status = 200,
                                   !.subtotal = Round2(subtotal * 100),
                                   !.total = Round2(subtotal * TaxPercent),
                                   !.currency = "USD"])
    /\ UNCHANGED <<storeVars, raceVars>>

---------------------------------------------------------------------------
(* add_to_cart, split at its two store calls *)

Pending == {r \in 1..NReq : pc[r] = "write"}

\* the sum of f over S
RECURSIVE SumFn(_, _)
SumFn(f, S) ==
    IF S = {} THEN 0
    ELSE LET x == CHOOSE y \in S : TRUE IN f[x] + SumFn(f, S \ {x})

\* Lines 147-149: the body is validated, then find_one runs.  The guards
\* keep the rows and quantities of the run within the bounds: a request is
\* admitted only if every request in flight can still complete.
add_to_cart_find(r, c, p, q) ==
    /\ pc[r] = "idle"
    /\ ValidCartItem(q)
    /\ requested[<<c, p>>] + q
         + SumFn([r2 \in Pending |-> item[r2].qty],
                 {r2 \in Pending : item[r2].cart = c /\ item[r2].pid = p})
         <= MaxQuantity
    /\ IF ~dbUp
       THEN /\ Record([NoRequest EXCEPT !.op = "add", !.cart = c, !.pid = p,
                                        !.qty = q, !.status = 500])
            /\ UNCHANGED raceVars
       ELSE /\ \/ /\ MatchingItems(cartitem, c, p) = {}
                  /\ Cardinality(cartitem)
                       + Cardinality({r2 \in Pending : existing[r2] = {}}) < MaxItems
                  /\ existing' = [existing EXCEPT ![r] = {}]
               \/ \E e \in MatchingItems(cartitem, c, p) :
                      existing' = [existing EXCEPT ![r] = {e}]
            /\ pc' = [pc EXCEPT ![r] = "write"]
            /\ item' = [item EXCEPT ![r] = [cart |-> c, pid |-> p, qty |-> q]]
            /\ raced' = (raced \/ \E r2 \in Pending :
                                    item[r2] = [cart |-> c, pid |-> p, qty |-> q])
            /\ UNCHANGED <<last, requested>>
    /\ UNCHANGED storeVars

\* Mutant of add_to_cart_write: the increment is computed from the row as it was read
add_to_cart_write_stale(r) ==
    LET c == item[r].cart
        p == item[r].pid
        q == item[r].qty
        req == [NoRequest EXCEPT !.op = "add", !.cart = c, !.pid = p, !.qty = q,
                                 !.status = 200, !.fresh = (existing[r] = {})]
    IN
    /\ pc[r] = "write"
    /\ IF existing[r] # {}
       THEN LET e == CHOOSE x \in existing[r] : TRUE
            IN  /\ cartitem' = IncQuantityOverwrite(cartitem, e._id, e.quantity + q)
                /\ Record([req EXCEPT !.result = "updated"])
                /\ UNCHANGED nextOid
       ELSE /\ cartitem' = create_document(cartitem, nextOid, c, p, q)
            /\ nextOid' = nextOid + 1
            /\ Record([req EXCEPT !.result = "added"])
    /\ requested' = [requested EXCEPT ![<<c, p>>] = @ + q]
    /\ pc' = [pc EXCEPT ![r] = "idle"]
    /\ item' = [item EXCEPT ![r] = <<>>]
    /\ existing' = [existing EXCEPT ![r] = {}]
    /\ UNCHANGED <<dbUp, category, product, order, raced>>

\* Mutant of add_to_cart_write: the write looks the row up again (an upsert)
add_to_cart_write_upsert(r) ==
    LET c == item[r].cart
        p == item[r].pid
        q == item[r].qty
        req == [NoRequest EXCEPT !.op = "add", !.cart = c, !.pid = p, !.qty = q,
                                 !.status = 200, !.fresh = (existing[r] = {})]
    IN
    /\ pc[r] = "write"
    /\ IF MatchingItems(cartitem, c, p) # {}
       THEN /\ cartitem' = IncQuantity(cartitem,
                                (CHOOSE e \in MatchingItems(cartitem, c, p) : TRUE)._id, q)
            /\ Record([req EXCEPT !.result = "updated"])
            /\ UNCHANGED nextOid
       ELSE /\ cartitem' = create_document(cartitem, nextOid, c, p, q)
            /\ nextOid' = nextOid + 1
            /\ Record([req EXCEPT !.result = "added"])
    /\ requested' = [requested EXCEPT ![<<c, p>>] = @ + q]
    /\ pc' = [pc EXCEPT ![r] = "idle"]
    /\ item' = [item EXCEPT ![r] = <<>>]
    /\ existing' = [existing EXCEPT ![r] = {}]
    /\ UNCHANGED <<dbUp, category, product, order, raced>>

\* Lines 150-154: update_one on the row find_one returned, or the insert
add_to_cart_write(r) ==
    LET c == item[r].cart
        p == item[r].pid
        q == item[r].qty
        req == [NoRequest EXCEPT !.op = "add", !.cart = c, !.pid = p, !.qty = q,
                                 !.status = 200, !.fresh = (existing[r] = {})]
    IN
    /\ pc[r] = "write"
    /\ IF existing[r] # {}
       THEN /\ cartitem' = IncQuantity(cartitem, (CHOOSE e \in existing[r] : TRUE)._id, q)
            /\ Record([req EXCEPT !.result = "updated"])
            /\ UNCHANGED nextOid
       ELSE /\ cartitem' = create_document(cartitem, nextOid, c, p, q)
            /\ nextOid' = nextOid + 1
            /\ Record([req EXCEPT !.result = "added"])
    /\ requested' = [requested EXCEPT ![<<c, p>>] = @ + q]
    /\ pc' = [pc EXCEPT ![r] = "idle"]
    /\ item' = [item EXCEPT ![r] = <<>>]
    /\ existing' = [existing EXCEPT ![r] = {}]
    /\ UNCHANGED <<dbUp, category, product, order, raced>>

RaceNext ==
    \/ \E r \in 1..NReq, c \in Carts, p \in ProductIds, q \in 1..MaxQty : add_to_cart_find(r, c, p, q)
    \/ \E r \in 1..NReq : add_to_cart_write(r)
    \/ \E c \in Carts : get_cart(c)

SpecRace == Init /\ [][RaceNext]_vars

Next ==
    \/ seed_data
    \/ \E id \in ProductIdInputs : get_product(id)
    \/ \E c \in Carts, p \in ProductIds, q \in 0..MaxQty : add_to_cart(c, p, q)
    \/ \E c \in Carts : get_cart(c)
    \/ \E id \in ItemIdInputs : remove_from_cart(id)
    \/ \E c \in Carts : checkout(c)

Spec == Init /\ [][Next]_vars


---------------------------------------------------------------------------
(* Properties *)

\* the rows of cart c for the pair (c, p), read off the collection
RowsOf(c, p) == {r \in cartitem : r.cart_id = c /\ r.product_id = p}

\* p is the identifier of a product in the store
Resolves(p) == ValidHex(p) /\ \E d \in product : d._id = ParseHex(p, Len(p))

PriceOf(p) == (CHOOSE d \in product : d._id = ParseHex(p, Len(p))).price

\* sum of price * quantity over rows whose product resolves: cents
RECURSIVE SumLines(_)
SumLines(rows) ==
    IF rows = {} THEN 0
    ELSE LET it == CHOOSE r \in rows : TRUE
         IN  PriceOf(it.product_id) * it.quantity + SumLines(rows \ {it})

ResolvedRows(c) == {it \in cartitem : it.cart_id = c /\ Resolves(it.product_id)}

\* C1. Cart upsert law: when an add of (c, p, q1) that found no row for
\* (c, p) is followed at once by an add of (c, p, q2), q1, q2 >= 1, on an
\* initialized store, the first answered "added", the second "updated", and
\* exactly one row for (c, p) is left, with quantity q1 + q2.
C1_UpsertLaw ==
    (dbUp /\ last.op = "add" /\ last.first # <<>> /\ last.qty >= 1)
        => (last.first[1] >= 1
              => /\ last.first[2] = 200 /\ last.first[3] = "added"
                 /\ last.status = 200 /\ last.result = "updated"
                 /\ \E row \in cartitem :
                        /\ RowsOf(last.cart, last.pid) = {row}
                        /\ row.quantity = last.first[1] + last.qty)

\* addToCart(c, p, 1) twice from no row: one row, quantity 2, "added" then "updated"
C1_Witness ==
    /\ last.op = "add" /\ last.qty = 1 /\ last.result = "updated"
    /\ last.first = <<1, 200, "added">>
    /\ \E row \in cartitem : RowsOf(last.cart, last.pid) = {row} /\ row.quantity = 2

\* C2. Uniqueness: with requests run one after the other, no two rows of
\* cartitem have the same (cart_id, product_id).
C2_UniquePairs ==
    \A r1, r2 \in cartitem :
        (r1.cart_id = r2.cart_id /\ r1.product_id = r2.product_id) => r1 = r2

\* an add, a remove of that row and two more adds of the same pair have run
C2_Witness ==
    /\ last.op = "add" /\ last.result = "updated"
    /\ \E row \in cartitem : RowsOf(last.cart, last.pid) = {row} /\ row._id = 33
    /\ Cardinality(cartitem) = 1

\* C3. Unresolvable product reference: on an initialized store, getCart of
\* a cart answers 200 and lists no row whose product_id matches no product,
\* and checkout of it answers 200 with the subtotal of the resolving rows.
C3_UnresolvableDropped ==
    /\ (dbUp /\ last.op = "getCart")
           => /\ last.status = 200
              /\ \A it \in CartRows(cartitem, last.cart) :
                     ~Resolves(it.product_id)
                         => ~\E e \in last.items : e.id = FormatOid(it._id)
    /\ (dbUp /\ last.op = "checkout")
           => /\ last.status = 200
              /\ last.subtotal = Round2(100 * SumLines(ResolvedRows(last.cart)))

\* C4. Malformed identifiers: getProduct of a malformed id answers 404,
\* removeFromCart of one answers 400, and neither changes product or cartitem.
C4_MalformedIds ==
    [][ /\ (last'.op = "getProduct" /\ ~ValidHex(last'.id))
            => (last'.status = 404 /\ UNCHANGED <<product, cartitem>>)
        /\ (last'.op = "remove" /\ ~ValidHex(last'.id))
            => (last'.status = 400 /\ UNCHANGED <<product, cartitem>>) ]_vars

\* a malformed id was sent to removeFromCart while the cart held rows
C4_Witness ==
    last.op = "remove" /\ ~ValidHex(last.id) /\ last.status = 400 /\ cartitem # {}

\* C5. removeFromCart of a well-formed id on an initialized store: when a
\* row has that identifier, exactly that row is deleted and the answer is
\* "removed"; otherwise the answer is 404 and cartitem is unchanged.
C5_RemoveById ==
    [][ (dbUp /\ last'.op = "remove" /\ ValidHex(last'.id))
            => LET hit == {r \in cartitem : r._id = ParseHex(last'.id, Len(last'.id))}
               IN  IF hit # {}
                   THEN /\ Cardinality(hit) = 1
                        /\ cartitem' = cartitem \ hit
                        /\ last'.status = 200 /\ last'.result = "removed"
                   ELSE /\ last'.status = 404
                        /\ cartitem' = cartitem ]_vars

\* the same id was removed twice in a row while another row stayed
C5_Witness ==
    last.op = "remove" /\ last.again /\ last.status = 404 /\ cartitem # {}

\* C6. checkout arithmetic: on an initialized store checkout(c) answers
\* subtotal = round(sum of price * quantity over the rows of c whose product
\* resolves, 2), total = round(that sum * 1.08, 2), currency "USD".
C6_CheckoutArithmetic ==
    (dbUp /\ last.op = "checkout")
        => /\ last.status = 200
           /\ last.subtotal = Round2(100 * SumLines(ResolvedRows(last.cart)))
           /\ last.total = Round2(108 * SumLines(ResolvedRows(last.cart)))
           /\ last.currency = "USD"

\* Where every row of the cart has a well-formed product_id, checkout
\* answers the quote of C6 and getCart answers 200; where one has not, both
\* answer 500 (ObjectId(it["product_id"]) raises outside any try).
WellFormedCart(c) == \A it \in CartRows(cartitem, c) : ValidHex(it.product_id)

CheckoutOnWellFormedCart ==
    /\ (dbUp /\ last.op = "checkout" /\ WellFormedCart(last.cart))
          => /\ last.status = 200
             /\ last.subtotal = Round2(100 * SumLines(ResolvedRows(last.cart)))
             /\ last.total = Round2(108 * SumLines(ResolvedRows(last.cart)))
             /\ last.currency = "USD"
    /\ (dbUp /\ last.op \in {"getCart", "checkout"} /\ ~WellFormedCart(last.cart))
          => last.status = 500

\* C7. checkout is read-only: a checkout leaves category, product and
\* cartitem unchanged, and no operation ever creates an Order.
C7_CheckoutReadOnly ==
    /\ [](order = {})
    /\ [][last'.op = "checkout" => UNCHANGED <<category, product, cartitem>>]_vars

\* a checkout answered a quote for a cart that still holds its rows
C7_Witness ==
    /\ last.op = "checkout" /\ last.status = 200 /\ last.subtotal > 0
    /\ CartRows(cartitem, last.cart) # {}

\* C8. Seeding: a seed changes a collection only when the store is
\* initialized and that collection is empty, and then fills it with the
\* three fixed documents; a seed run right after a seed run changes neither
\* collection's count.
C8_SeedIdempotent ==
    [][ last'.op = "seed"
          => /\ (category' # category => (dbUp /\ category = {}))
             /\ (product' # product => (dbUp /\ product = {}))
             /\ ((dbUp /\ category = {}) => category' = SeedCategories)
             /\ ((dbUp /\ product = {}) => product' = SeedProducts)
             /\ (last'.again
                   => /\ Cardinality(category') = Cardinality(category)
                      /\ Cardinality(product') = Cardinality(product)) ]_vars

\* the seed ran twice in a row on a store whose category collection held
\* documents and whose product collection was empty
C8_Witness ==
    /\ last.op = "seed" /\ last.again
    /\ category = CustomCategories /\ product = SeedProducts

\* the quantity stored for a pair
Stored(pr) == SumFn([r \in RowsOf(pr[1], pr[2]) |-> r.quantity], RowsOf(pr[1], pr[2]))

\* C9, as stated: once two identical adds have raced and every request has
\* answered, some pair stores less than the adds that answered 200 asked for.
C9_LostIncrement ==
    (raced /\ Pending = {}) => \E pr \in Pairs : Stored(pr) < requested[pr]

\* C9, amended: concurrent adds lose no increment; the quantities stored for
\* (c, p) add up to what the adds that answered 200 asked for.
C9_NoLostIncrement ==
    \A pr \in Pairs : Stored(pr) = requested[pr]

\* two identical adds raced on an existing row and both incremented it
C9_Witness ==
    /\ raced /\ Pending = {} /\ last.op = "add" /\ last.result = "updated"
    /\ \E row \in cartitem : cartitem = {row} /\ row.quantity = 3

\* C10. Duplicate rows under a race: an add whose lookup found no row
\* inserts a row and answers "added" whatever the collection holds by then;
\* no add lowers the number of rows of any pair, and an "updated" add
\* changes one row only; getCart of a cart whose rows all have well-formed
\* product ids lists a resolving product once per row of it.
C10_DuplicateRows ==
    [][ /\ \A r \in 1..NReq :
              (pc[r] = "write" /\ pc'[r] = "idle")
                  => IF existing[r] = {}
                     THEN /\ last'.result = "added"
                          /\ Cardinality(cartitem') = Cardinality(cartitem) + 1
                          /\ cartitem \subseteq cartitem'
                     ELSE /\ last'.result = "updated"
                          /\ Cardinality(cartitem' \ cartitem) <= 1
                          /\ Cardinality(cartitem') = Cardinality(cartitem)
        /\ \A pr \in Pairs :
              Cardinality({r \in cartitem' : r.cart_id = pr[1] /\ r.product_id = pr[2]})
                  >= Cardinality(RowsOf(pr[1], pr[2]))
        /\ (last'.op = "getCart" /\ last' # last /\ dbUp
              /\ \A it \in CartRows(cartitem, last'.cart) : ValidHex(it.product_id))
              => /\ last'.status = 200
                 /\ \A p \in ProductIds :
                        Resolves(p)
                            => Cardinality({e \in last'.items :
                                   e.product.id = FormatOid(ParseHex(p, Len(p)))})
                               = Cardinality(RowsOf(last'.cart, p)) ]_vars

\* two racing adds both inserted, a later add incremented one of the two
\* rows, and getCart listed the product twice
C10_Witness ==
    /\ last.op = "getCart" /\ last.status = 200
    /\ \E r1, r2 \in cartitem :
          /\ r1._id # r2._id
          /\ r1.cart_id = last.cart /\ r2.cart_id = last.cart
          /\ r1.product_id = r2.product_id
          /\ r1.quantity # r2.quantity
          /\ \E e1, e2 \in last.items :
                e1.id # e2.id /\ e1.product = e2.product

=============================================================================
